---------------------------- MODULE Spec2Model ----------------------------
(***************************************************************************)
(* Course recommender: recommend (src/app.py), compute_similarity          *)
(* (src/app.py) and the poster refresh script (src/generate_posters.py).   *)
(*                                                                         *)
(* Python indices are kept 0-based as VALUES; TLA+ sequences are 1-based,  *)
(* so element i of a Python array a is a[i + 1] here.                      *)
(***************************************************************************)
EXTENDS Integers, Sequences, FiniteSets

(***************************************************************************)
(* Bounds of the model.                                                    *)
(***************************************************************************)
MaxN == 3
MaxScore == 2
MaxK == 2

VARIABLES
    pc,               \* position of the call: "call" | "done"
    names,            \* df['name'], in row order
    index,            \* df.index: the row labels, in row order
    simSize,          \* similarity.shape[0] = similarity.shape[1]
    course_name,      \* argument of recommend
    n_recommendations,\* argument of recommend
    idx,              \* local idx of recommend (a row LABEL), NoRow if unset
    scores,           \* local scores = similarity[idx], <<>> if never read
    ranked,           \* scores.argsort()[::-1]
    similar_indices,  \* ranked[1:n_recommendations + 1]
    results,          \* the returned list
    outcome,          \* "pending" | "not_found" | "error" | "ok"
    \* compute_similarity
    cs_pc,            \* "idle" | "call" | "done"
    has_description,  \* 'description' in df.columns
    name_col,         \* df['name'] as texts, in row order
    description_col,  \* df['description'] as texts or NaN, in row order
    features,         \* local features, <<>> if unset
    similarity,       \* the returned matrix, <<>> if none
    cs_outcome,       \* "pending" | "ok" | "raised"
    \* generate_posters.main
    gp_pc,            \* "idle" | "start" | "loop" | "done"
    has_poster,       \* "poster" in df.columns, as main found it
    url_col,          \* df["url"], in row order
    poster_col,       \* df["poster"], in row order (<<>> while absent)
    found_posters,    \* df["poster"] as the loop found it
    posters,          \* local list posters
    loop_idx,         \* idx of the loop: rows handled so far
    requested,        \* rows (0-based) fetch_poster was called for
    updated_count,    \* local updated_count
    saved             \* poster column of the course.pkl written, <<>> if none

recVars == <<pc, names, index, simSize, course_name, n_recommendations, idx,
             scores, ranked, similar_indices, results, outcome>>

simVars == <<cs_pc, has_description, name_col, description_col, features,
             similarity, cs_outcome>>

posterVars == <<gp_pc, has_poster, url_col, poster_col, found_posters,
                posters, loop_idx, requested, updated_count, saved>>

vars == <<recVars, simVars, posterVars>>

NoRow == -1

Min(a, b) == IF a < b THEN a ELSE b

(***************************************************************************)
(* Inputs.                                                                 *)
(***************************************************************************)
\* Two of the names of create_sample_data, and one that no catalog holds.
CourseNames == {"Python for Everybody", "Cloud Computing Basics"}
UnknownName == "Quantum Knitting"

\* Sequences over S of length 1..n.
SeqsUpTo(S, n) == UNION {[1..k -> S] : k \in 1..n}

\* A DataFrame index of n rows: the default RangeIndex 0..n-1, or what is
\* left of a RangeIndex 0..n after one row was dropped upstream
\* (drop_duplicates / filtering without reset_index): increasing labels.
RangeIndex(n) == [k \in 1..n |-> k - 1]

Indexes(n) ==
    {ix \in [1..n -> 0..n] : \A k \in 1..(n - 1) : ix[k] < ix[k + 1]}

(***************************************************************************)
(* Each operation is checked under a specification of its own; the other   *)
(* operations' variables then rest at these values.                        *)
(***************************************************************************)
RecIdle ==
    /\ pc = "idle"
    /\ names = <<>>
    /\ index = <<>>
    /\ simSize = 0
    /\ course_name = ""
    /\ n_recommendations = 0
    /\ idx = NoRow
    /\ scores = <<>>
    /\ ranked = <<>>
    /\ similar_indices = <<>>
    /\ results = <<>>
    /\ outcome = "pending"

SimIdle ==
    /\ cs_pc = "idle"
    /\ has_description = FALSE
    /\ name_col = <<>>
    /\ description_col = <<>>
    /\ features = <<>>
    /\ similarity = <<>>
    /\ cs_outcome = "pending"

PosterIdle ==
    /\ gp_pc = "idle"
    /\ has_poster = FALSE
    /\ url_col = <<>>
    /\ poster_col = <<>>
    /\ found_posters = <<>>
    /\ posters = <<>>
    /\ loop_idx = 0
    /\ requested = {}
    /\ updated_count = 0
    /\ saved = <<>>

(***************************************************************************)
(* recommend, src/app.py 143-172.                                          *)
(***************************************************************************)
\* A guard that lets every identifier through.
NameInCatalogAlways(name, col) == TRUE

\* course_name in df['name'].values
NameInCatalog(name, col) == \E k \in 1..Len(col) : col[k] = name

\* Position (0-based) of the first row whose name equals the identifier;
\* NoRow when the boolean mask df['name'] == course_name selects nothing.
FirstPos(name, col) ==
    IF \E k \in 1..Len(col) : col[k] = name
    THEN (CHOOSE k \in 1..Len(col) :
            /\ col[k] = name
            /\ \A j \in 1..(k - 1) : col[j] # name) - 1
    ELSE NoRow

\* df[df['name'] == course_name].index[0]: the LABEL of the first match;
\* .index[0] of an empty selection raises IndexError (NoRow here).
FirstMatchLabel(name, col, ix) ==
    IF FirstPos(name, col) = NoRow THEN NoRow ELSE ix[FirstPos(name, col) + 1]

\* similarity[idx] raises IndexError unless 0 <= idx < rows (labels are >= 0).
RowInRange(i, size) == i \in 0..(size - 1)

\* scores.argsort(): numpy's default kind is quicksort, which is not stable,
\* so every permutation of 0..M-1 that puts the scores in non-decreasing
\* order is a possible outcome: the next index is any of those left whose
\* score is the smallest left.
RECURSIVE ArgsortFrom(_, _)
ArgsortFrom(row, left) ==
    IF left = {} THEN {<<>>}
    ELSE LET lowest == {i \in left : \A j \in left : row[i + 1] <= row[j + 1]}
         IN  UNION {{<<i>> \o t : t \in ArgsortFrom(row, left \ {i})} :
                        i \in lowest}

Argsort(row) == ArgsortFrom(row, 0..(Len(row) - 1))

\* The reversal left out: ascending order.
ReversedOmitted(s) == s

\* a[::-1]
Reversed(s) == [k \in 1..Len(s) |-> s[Len(s) + 1 - k]]

\* A cut that starts one place late: a[lo + 1:hi + 1].
SliceOffByOne(s, lo, hi) == SubSeq(s, lo + 2, Min(hi + 1, Len(s)))

\* a[lo:hi] for 0 <= lo <= hi
Slice(s, lo, hi) == SubSeq(s, lo + 1, Min(hi, Len(s)))

\* The loop of lines 155-166: one record per index i < len(df), in order.
\* similarity_score holds scores[i] itself, before its "%.2f" rendering; the
\* url, poster, description and provider fields are copied from the same row
\* as name and are left out.
BuildResults(sel, col, row) ==
    LET kept == SelectSeq(sel, LAMBDA i : i < Len(col))
    IN  [k \in 1..Len(kept) |->
            [index |-> kept[k],
             name |-> col[kept[k] + 1],
             similarity_score |-> row[kept[k] + 1]]]

Init ==
    /\ pc = "call"
    /\ names \in SeqsUpTo(CourseNames, MaxN)
    /\ index \in Indexes(Len(names))
    /\ simSize \in {m \in 1..MaxN : m - Len(names) \in {-1, 0, 1}}
    /\ course_name \in CourseNames \cup {UnknownName}
    /\ n_recommendations \in 1..MaxK
    /\ idx = NoRow
    /\ scores = <<>>
    /\ ranked = <<>>
    /\ similar_indices = <<>>
    /\ results = <<>>
    /\ outcome = "pending"
    /\ SimIdle
    /\ PosterIdle

\* Lines 146-147: the identifier names no item.
RecommendNotFound ==
    /\ pc = "call"
    /\ ~NameInCatalog(course_name, names)
    /\ pc' = "done"
    /\ results' = <<>>
    /\ outcome' = "not_found"
    /\ UNCHANGED <<names, index, simSize, course_name, n_recommendations,
                   idx, scores, ranked, similar_indices>>
    /\ UNCHANGED <<simVars, posterVars>>

\* Lines 149-150 raise IndexError, caught at 170-172: st.error, return [].
RecommendIndexError ==
    /\ pc = "call"
    /\ NameInCatalog(course_name, names)
    /\ ~RowInRange(FirstMatchLabel(course_name, names, index), simSize)
    /\ pc' = "done"
    /\ idx' = FirstMatchLabel(course_name, names, index)
    /\ results' = <<>>
    /\ outcome' = "error"
    /\ UNCHANGED <<names, index, simSize, course_name, n_recommendations,
                   scores, ranked, similar_indices>>
    /\ UNCHANGED <<simVars, posterVars>>

\* Lines 149-168: the row is read, sorted, cut and turned into records.
\* The row's content is the matrix's, which recommend does not control.
RecommendOk ==
    /\ pc = "call"
    /\ NameInCatalog(course_name, names)
    /\ RowInRange(FirstMatchLabel(course_name, names, index), simSize)
    /\ \E row \in [1..simSize -> 0..MaxScore] :
         \E p \in Argsort(row) :
            /\ idx' = FirstMatchLabel(course_name, names, index)
            /\ scores' = row
            /\ ranked' = Reversed(p)
            /\ similar_indices' = Slice(Reversed(p), 1, n_recommendations + 1)
            /\ results' = BuildResults(
                              Slice(Reversed(p), 1, n_recommendations + 1),
                              names, row)
    /\ pc' = "done"
    /\ outcome' = "ok"
    /\ UNCHANGED <<names, index, simSize, course_name, n_recommendations>>
    /\ UNCHANGED <<simVars, posterVars>>

Next ==
    \/ RecommendNotFound
    \/ RecommendIndexError
    \/ RecommendOk

Spec == Init /\ [][Next]_vars

(***************************************************************************)
(* Properties of recommend.                                                *)
(***************************************************************************)
N == Len(names)
Done == pc = "done"
Valid == NameInCatalog(course_name, names)
QueryPos == FirstPos(course_name, names)
DefaultIndex == index = RangeIndex(N)
Returned == {results[k].index : k \in 1..Len(results)}
Score(i) == scores[i + 1]

\* C1: for a valid identifier and a matrix of matching size, the result never
\* contains the query item itself, also when another item scores as high as
\* the query item's self-similarity or higher.
C1_NeverReturnsQueryItem ==
    (Done /\ Valid /\ DefaultIndex /\ simSize = N) => QueryPos \notin Returned

\* C2: with an N x N matrix, a valid identifier and a positive K, recommend
\* returns exactly min(K, N - 1) results.
C2_ExactlyMinKNMinus1 ==
    (Done /\ Valid /\ simSize = N)
        => Len(results) = Min(n_recommendations, N - 1)

C5_UnknownIdentifierEmpty ==
    (Done /\ \A k \in 1..N : names[k] # course_name)
    => /\ results = <<>>
       /\ outcome = "not_found"
       /\ idx = NoRow
       /\ scores = <<>>

C5_Witness ==
    /\ Done
    /\ \A k \in 1..N : names[k] # course_name
    /\ results = <<>>

\* C6: when the matrix's row length differs from the catalog size, recommend
\* for a valid identifier signals an error; it never returns a list computed
\* from the mismatched matrix.
C6_MismatchSignalsError ==
    (Done /\ Valid /\ DefaultIndex /\ simSize # N) => outcome = "error"

\* C7: the returned items are the K highest-scoring items other than the query
\* item: no item that is neither the query item nor returned has a score
\* strictly greater than a returned item's.
C7_TopKOfOthers ==
    (Done /\ outcome = "ok" /\ DefaultIndex /\ simSize = N)
    => \A k \in 1..Len(results) :
         \A j \in (0..(N - 1)) \ (Returned \cup {QueryPos}) :
            Score(j) <= results[k].similarity_score

\* C9: the identifier resolves to the catalog position of the first item of
\* that name, and that position's row of the matrix is the one read.
C9_ReadsRowOfFirstMatchPosition ==
    (Done /\ Valid /\ simSize = N) => (outcome = "ok" /\ idx = QueryPos)

(***************************************************************************)
(* compute_similarity, src/app.py 122-137.                                 *)
(*                                                                         *)
(* A text is a record: isna for pandas' missing value NaN, otherwise its   *)
(* words in order. TfidfVectorizer(stop_words='english') lowercases, takes *)
(* the words of two or more characters and drops the stop words; each      *)
(* document becomes the vector of tf * idf over the vocabulary, idf > 0.   *)
(* The cosine of two such vectors is 0 when they share no term, 1 when     *)
(* their term counts are proportional, and strictly between otherwise: the *)
(* model keeps which of the three it is.                                   *)
(***************************************************************************)
MaxDocs == 2

Str(ws) == [isna |-> FALSE, words |-> ws]
NaN == [isna |-> TRUE, words |-> <<>>]

NameTexts == {Str(<<"Python">>), Str(<<"Data">>), Str(<<"The">>)}
DescriptionTexts ==
    {NaN, Str(<<>>), Str(<<"python">>), Str(<<"the", "data", "python">>)}

Terms == {"python", "data"}
StopWords == {"the"}

Lower(w) ==
    CASE w = "Python" -> "python"
      [] w = "Data" -> "data"
      [] w = "The" -> "the"
      [] OTHER -> w

\* Series + " " + Series, element-wise: NaN when either operand is NaN.
Concat(a, b) == IF a.isna \/ b.isna THEN NaN ELSE Str(a.words \o b.words)

\* Lines 126-129.
Features(hasDesc, ncol, dcol) ==
    IF hasDesc
    THEN [k \in 1..Len(ncol) |-> Concat(ncol[k], dcol[k])]
    ELSE ncol

\* The analyzer of TfidfVectorizer: lowercase, then drop the stop words.
Tokens(t) ==
    SelectSeq([k \in 1..Len(t.words) |-> Lower(t.words[k])],
              LAMBDA w : w \notin StopWords)

\* Term frequency of term w in text t.
Tf(t, w) == Cardinality({k \in 1..Len(Tokens(t)) : Tokens(t)[k] = w})

\* fit_transform raises ValueError on a NaN document ("np.nan is an invalid
\* document") and on an empty vocabulary.
FitRaises(docs) ==
    \/ \E k \in 1..Len(docs) : docs[k].isna
    \/ \A k \in 1..Len(docs) : Tokens(docs[k]) = <<>>

\* cosine_similarity of the tf-idf rows of a and b.
Cosine(a, b) ==
    IF ~\E w \in Terms : Tf(a, w) > 0 /\ Tf(b, w) > 0 THEN "0"
    ELSE IF \A w, u \in Terms : Tf(a, w) * Tf(b, u) = Tf(a, u) * Tf(b, w)
         THEN "1"
         ELSE "between"

SimilarityMatrix(docs) ==
    [i \in 1..Len(docs) |-> [j \in 1..Len(docs) |-> Cosine(docs[i], docs[j])]]

SimInit ==
    /\ RecIdle
    /\ PosterIdle
    /\ cs_pc = "call"
    /\ has_description \in BOOLEAN
    /\ name_col \in SeqsUpTo(NameTexts, MaxDocs)
    /\ description_col \in
         IF has_description THEN [1..Len(name_col) -> DescriptionTexts]
         ELSE {<<>>}
    /\ features = <<>>
    /\ similarity = <<>>
    /\ cs_outcome = "pending"

\* Line 133 raises; nothing in compute_similarity catches it.
ComputeSimilarityRaises ==
    /\ cs_pc = "call"
    /\ FitRaises(Features(has_description, name_col, description_col))
    /\ cs_pc' = "done"
    /\ features' = Features(has_description, name_col, description_col)
    /\ cs_outcome' = "raised"
    /\ UNCHANGED <<has_description, name_col, description_col, similarity>>
    /\ UNCHANGED <<recVars, posterVars>>

\* Lines 126-137 run to the return.
ComputeSimilarityOk ==
    /\ cs_pc = "call"
    /\ ~FitRaises(Features(has_description, name_col, description_col))
    /\ cs_pc' = "done"
    /\ features' = Features(has_description, name_col, description_col)
    /\ similarity' =
         SimilarityMatrix(Features(has_description, name_col, description_col))
    /\ cs_outcome' = "ok"
    /\ UNCHANGED <<has_description, name_col, description_col>>
    /\ UNCHANGED <<recVars, posterVars>>

SimNext ==
    \/ ComputeSimilarityRaises
    \/ ComputeSimilarityOk

SpecSim == SimInit /\ [][SimNext]_vars

\* C8: an item whose description is empty or missing is treated as having an
\* empty string there: the matrix is still produced, and the item's combined
\* text is not missing. Stated for catalogs in which every name holds a term,
\* so that the vocabulary is never empty.
C8_MissingTextTreatedAsEmpty ==
    (/\ cs_pc = "done"
     /\ has_description
     /\ \A k \in 1..Len(name_col) : Tokens(name_col[k]) # <<>>)
    => /\ cs_outcome = "ok"
       /\ \A k \in 1..Len(features) : ~features[k].isna

(***************************************************************************)
(* generate_posters.py: fetch_poster (23-62) and main (72-106).            *)
(*                                                                         *)
(* A string is the sequence of its pieces ("https://cdn/og.png" is         *)
(* <<"http", "s", ":", "/", "/", "cdn", "/", "og", ".png">>), so that      *)
(* startswith is a prefix test; a cell is a string or pandas' NaN.         *)
(***************************************************************************)
MaxRows == 2

Cell(p) == [isna |-> FALSE, s |-> p]
NaNCell == [isna |-> TRUE, s |-> <<>>]

StartsWith(s, prefix) ==
    /\ Len(s) >= Len(prefix)
    /\ SubSeq(s, 1, Len(prefix)) = prefix

\* Line 20.
DEFAULT_POSTER ==
    <<"http", "s", ":", "/", "/", "upload.wikimedia.org", "/",
      "No_Image_Available", ".jpg">>

CustomPoster == <<"http", "s", ":", "/", "/", "cdn", "/", "custom", ".png">>

PosterCells == {Cell(DEFAULT_POSTER), NaNCell, Cell(CustomPoster), Cell(<<>>)}

CourseUrl == <<"http", "s", ":", "/", "/", "www.coursera.org", "/", "learn">>

\* What a page answers: the request fails (timeout, bad status) or gives a
\* document with, for each of the three meta selectors, the tag's content
\* (NoTag when find returns None) and the src of its <img> tags.
NoTag == <<"<none>">>
MetaContents ==
    {NoTag, <<>>,
     <<"/", "og", ".png">>,
     <<"http", "s", ":", "/", "/", "cdn", "/", "og", ".png">>,
     <<"http", ":", "/", "/", "cdn", "/", "tw", ".png">>}
ImgSrcs ==
    {<<"/", "/", "cdn", "/", "Course", ".png">>,
     <<"/", "static", "/", "card", ".png">>,
     <<"http", "s", ":", "/", "/", "cdn", "/", "thumbnail", ".png">>,
     <<"http", "s", ":", "/", "/", "cdn", "/", "logo", ".png">>,
     <<"data:", "card">>}
UnusableImg == <<"data:", "card">>
Responses ==
    {[ok |-> FALSE, metas |-> <<>>, imgs |-> <<>>]}
    \cup {[ok |-> TRUE, metas |-> m, imgs |-> i] :
            m \in [1..3 -> MetaContents],
            i \in {<<>>} \cup {<<x>> : x \in ImgSrcs}
                         \cup {<<UnusableImg, x>> : x \in ImgSrcs}}

LowerPiece(w) == IF w = "Course" THEN "course" ELSE w

\* Line 49: any(keyword in src.lower() ...)
HasKeyword(src) ==
    \E k \in 1..Len(src) : LowerPiece(src[k]) \in {"course", "card", "thumbnail"}

\* Lines 38-43: the first meta tag with a non-empty content that starts with
\* http:// or https://; <<>> when there is none.
FirstMeta(metas) ==
    LET good == SelectSeq(metas, LAMBDA c :
                    /\ c # NoTag
                    /\ c # <<>>
                    /\ \/ StartsWith(c, <<"http", ":", "/", "/">>)
                       \/ StartsWith(c, <<"http", "s", ":", "/", "/">>))
    IN  IF good = <<>> THEN <<>> ELSE <<good[1]>>

\* Lines 50-55 for one src with a keyword: the returned string, <<>> if none.
ImgPoster(src) ==
    IF StartsWith(src, <<"/", "/">>) THEN <<<<"http", "s", ":">> \o src>>
    ELSE IF StartsWith(src, <<"/">>)
         THEN <<<<"http", "s", ":", "/", "/", "www.coursera.org">> \o src>>
    ELSE IF StartsWith(src, <<"http">>) THEN <<src>>
    ELSE <<>>

\* Lines 46-55: the first image with a keyword and a usable prefix.
FirstImg(imgs) ==
    LET good == SelectSeq(imgs, LAMBDA x :
                    x # <<>> /\ HasKeyword(x) /\ ImgPoster(x) # <<>>)
    IN  IF good = <<>> THEN <<>> ELSE ImgPoster(good[1])

\* fetch_poster, lines 23-62: both except clauses fall through to line 62.
FetchPoster(resp) ==
    IF ~resp.ok THEN Cell(DEFAULT_POSTER)
    ELSE IF FirstMeta(resp.metas) # <<>> THEN Cell(FirstMeta(resp.metas)[1])
    ELSE IF FirstImg(resp.imgs) # <<>> THEN Cell(FirstImg(resp.imgs)[1])
    ELSE Cell(DEFAULT_POSTER)

\* A test that forgets the missing value.
NeedsFetchDefaultOnly(cell) == ~cell.isna /\ cell.s = DEFAULT_POSTER

\* Line 91: current_poster == DEFAULT_POSTER or pd.isna(current_poster)
NeedsFetch(cell) == (~cell.isna /\ cell.s = DEFAULT_POSTER) \/ cell.isna

PosterInit ==
    /\ RecIdle
    /\ SimIdle
    /\ gp_pc = "start"
    /\ has_poster \in BOOLEAN
    /\ url_col \in SeqsUpTo({Cell(CourseUrl)}, MaxRows)
    /\ poster_col \in
         IF has_poster THEN [1..Len(url_col) -> PosterCells] ELSE {<<>>}
    /\ found_posters = <<>>
    /\ posters = <<>>
    /\ loop_idx = 0
    /\ requested = {}
    /\ updated_count = 0
    /\ saved = <<>>

\* Lines 73-85: the backup, the poster column created when absent, the
\* counters set.
MainStart ==
    /\ gp_pc = "start"
    /\ gp_pc' = "loop"
    /\ poster_col' =
         IF has_poster THEN poster_col
         ELSE [k \in 1..Len(url_col) |-> Cell(DEFAULT_POSTER)]
    /\ found_posters' = poster_col'
    /\ posters' = <<>>
    /\ updated_count' = 0
    /\ UNCHANGED <<has_poster, url_col, loop_idx, requested, saved>>
    /\ UNCHANGED <<recVars, simVars>>

\* Lines 87-96: one turn of the loop for a row that needs a poster.
MainFetchRow ==
    /\ gp_pc = "loop"
    /\ loop_idx < Len(url_col)
    /\ NeedsFetch(poster_col[loop_idx + 1])
    /\ \E resp \in Responses :
         /\ posters' = Append(posters, FetchPoster(resp))
         /\ updated_count' =
              IF FetchPoster(resp) # Cell(DEFAULT_POSTER)
              THEN updated_count + 1 ELSE updated_count
    /\ requested' = requested \cup {loop_idx}
    /\ loop_idx' = loop_idx + 1
    /\ UNCHANGED <<gp_pc, has_poster, url_col, poster_col, found_posters, saved>>
    /\ UNCHANGED <<recVars, simVars>>

\* Lines 87-91, 97-98: one turn of the loop for a row that has a poster.
MainKeepRow ==
    /\ gp_pc = "loop"
    /\ loop_idx < Len(url_col)
    /\ ~NeedsFetch(poster_col[loop_idx + 1])
    /\ posters' = Append(posters, poster_col[loop_idx + 1])
    /\ loop_idx' = loop_idx + 1
    /\ UNCHANGED <<gp_pc, has_poster, url_col, poster_col, found_posters,
                   requested, updated_count, saved>>
    /\ UNCHANGED <<recVars, simVars>>

\* Lines 100-103: the column is replaced and the frame written.
MainSave ==
    /\ gp_pc = "loop"
    /\ loop_idx = Len(url_col)
    /\ poster_col' = posters
    /\ saved' = posters
    /\ gp_pc' = "done"
    /\ UNCHANGED <<has_poster, url_col, found_posters, posters, loop_idx,
                   requested, updated_count>>
    /\ UNCHANGED <<recVars, simVars>>

PosterNext ==
    \/ MainStart
    \/ MainFetchRow
    \/ MainKeepRow
    \/ MainSave

SpecPosters == PosterInit /\ [][PosterNext]_vars

\* The poster row k (1-based) had when main started: none when the frame had
\* no poster column.
HadOwnPoster(k) ==
    /\ has_poster
    /\ ~found_posters[k].isna
    /\ found_posters[k].s # DEFAULT_POSTER

\* C10: after the loop the saved column has one entry per row in row order;
\* a row that already had a non-missing poster other than DEFAULT_POSTER keeps
\* it and is never fetched; every other row is fetched and gets a string that
\* is DEFAULT_POSTER or starts with "http", never a missing value.
C10_SavedPosters ==
    gp_pc = "done"
    => /\ Len(saved) = Len(url_col)
       /\ \A k \in 1..Len(url_col) :
            IF HadOwnPoster(k)
            THEN saved[k] = found_posters[k] /\ (k - 1) \notin requested
            ELSE /\ (k - 1) \in requested
                 /\ ~saved[k].isna
                 /\ \/ saved[k].s = DEFAULT_POSTER
                    \/ StartsWith(saved[k].s, <<"http">>)

\* Both kinds of row in one run: a kept poster and a fetched URL.
C10_Witness ==
    /\ gp_pc = "done"
    /\ \E k \in 1..Len(url_col) : HadOwnPoster(k) /\ saved[k] = found_posters[k]
    /\ \E k \in 1..Len(url_col) :
         /\ found_posters[k].isna
         /\ saved[k].s # DEFAULT_POSTER
         /\ (k - 1) \in requested

=============================================================================
